---- MODULE Spec2Model ----
(***************************************************************************)
(* Model of the two visualisation scripts of cryptoquantengine:            *)
(*   hftengine/py/util.py                   plot_equity_dd, plot_equity    *)
(*   hftengine/core/recorder/plot_recorder.py   the CSV plotter script     *)
(* One behaviour is one invocation of one entry point.  The pyplot state   *)
(* (current figure, what was drawn on it, whether show() was called) and   *)
(* the process state (stdout, uncaught exception, exit status) are the     *)
(* variables; every statement group of the source is one action.           *)
(***************************************************************************)
EXTENDS Integers, Sequences, FiniteSets

\* ------------------------------------------------------------------ bounds
MaxLen == 3
MaxVal == 2
NegVals == 2
MaxYLim == 1
MaxArgc == 4

\* ------------------------------------------------------- numeric helpers
Abs(a) == IF a < 0 THEN -a ELSE a

RECURSIVE GCD(_, _)
GCD(a, b) == IF b = 0 THEN a ELSE GCD(b, a % b)

\* A float64 value as numpy produces it: a finite value n/d in lowest terms
\* (d > 0), or one of the IEEE specials.  -0.0 is identified with 0: the
\* two compare equal and neither is < 0.
Fin(n, d) ==
  LET g == GCD(Abs(n), Abs(d))
      s == IF d < 0 THEN -1 ELSE 1
  IN [k |-> "fin", n |-> (s * n) \div g, d |-> (s * d) \div g]
NaN == [k |-> "nan", n |-> 0, d |-> 1]
PosInf == [k |-> "posinf", n |-> 0, d |-> 1]
NegInf == [k |-> "neginf", n |-> 0, d |-> 1]

IsFinite(v) == v.k = "fin"

\* np.maximum on two scalars; the mutant keeps the smaller one.
Maximum_KeepsMin(a, b) == IF a <= b THEN a ELSE b
Maximum(a, b) == IF a >= b THEN a ELSE b

\* np.maximum.accumulate: out[0] = in[0], out[i] = maximum(out[i-1], in[i]).
RECURSIVE MaximumAccumulate(_)
MaximumAccumulate(s) ==
  IF Len(s) <= 1 THEN s
  ELSE LET p == MaximumAccumulate(SubSeq(s, 1, Len(s) - 1))
       IN Append(p, Maximum(p[Len(p)], s[Len(s)]))

\* equity - peak, elementwise.
Subtract(a, b) == [i \in 1..Len(a) |-> a[i] - b[i]]

\* numpy true division of two scalars: no exception, IEEE specials on a
\* zero divisor.  The mutant is a guarded division (0 on a zero divisor).
TrueDivide_Guarded(a, b) == IF b = 0 THEN Fin(0, 1) ELSE Fin(a, b)
TrueDivide(a, b) ==
  IF b # 0 THEN Fin(a, b)
  ELSE IF a = 0 THEN NaN
  ELSE IF a > 0 THEN PosInf
  ELSE NegInf

\* float * 100 (a positive scalar): specials are kept.  The mutant leaves
\* the fraction unscaled.
Times100_Fraction(v) == v
Times100(v) == IF IsFinite(v) THEN Fin(v.n * 100, v.d) ELSE v

\* drawdown / peak * 100, elementwise.
DrawdownPct(dd, pk) == [i \in 1..Len(dd) |-> Times100(TrueDivide(dd[i], pk[i]))]

\* float < 0 as numpy evaluates it: False for nan, True for -inf.
LessThanZero(v) == v.k = "neginf" \/ (v.k = "fin" /\ v.n < 0)

\* drawdown_pct < 0, elementwise: the `where` mask of the drawdown fill.
WhereMask(pct) == [i \in 1..Len(pct) |-> LessThanZero(pct[i])]

\* `if y_lim:` -- Python truthiness of a number.  The mutant tests
\* y_lim > 0 instead.
Truthy_PositiveOnly(v) == v > 0
Truthy(v) == v # 0

\* Axes.fill_between broadcasts x against y1: equal lengths, or one of
\* them of length 1.
Broadcastable(a, b) == a = b \/ a = 1 \/ b = 1

\* Axes.plot requires x and y to have the same first dimension.  The
\* mutant accepts any pair.
SameFirstDimension_Unchecked(a, b) == TRUE
SameFirstDimension(a, b) == a = b

\* ------------------------------------------------------------------ inputs
EquityVals == (-NegVals)..MaxVal

SeqsUpTo(S, n) == UNION {[1..m -> S] : m \in 0..n}

\* The two worked scenarios of the drawdown computation.
Scenario1 == <<100, 110, 90, 95, 120>>
Scenario2 == <<50>>

EquityInputs == SeqsUpTo(EquityVals, MaxLen) \cup {Scenario1, Scenario2}

required == <<"matplotlib", "pandas">>
RequiredPkgs == {required[i] : i \in 1..Len(required)}
Columns == {"timestamp", "equity", "mid_price", "position"}

\* ------------------------------------------------------------------- state
VARIABLES
  entry,         \* which entry point this invocation runs
  pc,            \* the statement group about to run, "done" when over
  equity,        \* plot_equity_dd: the equity argument
  time_len,      \* plot_equity_dd: len(time)
  y_lim,         \* plot_equity_dd: the y_lim argument
  log,           \* plot_equity_dd / plot_equity: the log argument
  x_len,         \* plot_equity: len(x)
  y_len,         \* plot_equity: len(y)
  peak,          \* plot_equity_dd local
  drawdown,      \* plot_equity_dd local
  drawdown_pct,  \* plot_equity_dd local
  py_ok,         \* script: sys.version_info >= (3, 7)
  installed,     \* script: the importable packages among the required ones
  argv_len,      \* script: len(sys.argv)
  file_exists,   \* script: whether csv_filename can be opened
  header,        \* script: the required columns the CSV header has
  ts_valid,      \* script: whether the timestamp column parses
  args_read,     \* script: sys.argv[1], sys.argv[2] have been read
  file_read,     \* script: pd.read_csv has opened the file
  stdout,        \* the messages printed, in order
  error,         \* the exception raised and not caught, "none" if none
  exit,          \* <<>> while running or returned, <<status>> once exited
  fig,           \* pyplot: a figure has been created
  drawn,         \* pyplot: the artists added to the figure
  fill_where,    \* pyplot: the where mask of the drawdown fill
  yscale,        \* pyplot: the primary axis' scale
  ylim_bottom,   \* pyplot: <<>> (automatic) or <<the lower limit set>>
  shown          \* pyplot: plt.show() has been called

inVars  == <<entry, equity, time_len, y_lim, log, x_len, y_len,
             py_ok, installed, argv_len, file_exists, header, ts_valid>>
ddVars  == <<peak, drawdown, drawdown_pct>>
osVars  == <<args_read, file_read, stdout, exit>>
pltVars == <<fig, drawn, fill_where, yscale, ylim_bottom, shown>>
vars    == <<inVars, pc, ddVars, osVars, error, pltVars>>

\* The state before the first statement, the same for every entry point.
Fresh ==
  /\ peak = <<>> /\ drawdown = <<>> /\ drawdown_pct = <<>>
  /\ args_read = FALSE /\ file_read = FALSE
  /\ stdout = <<>> /\ error = "none" /\ exit = <<>>
  /\ fig = FALSE /\ drawn = {} /\ fill_where = <<>>
  /\ yscale = "linear" /\ ylim_bottom = <<>> /\ shown = FALSE

NoDDInput == equity = <<>> /\ time_len = 0 /\ y_lim = 0
NoEquityInput == x_len = 0 /\ y_len = 0
NoScriptInput ==
  /\ py_ok = TRUE /\ installed = RequiredPkgs /\ argv_len = 1
  /\ file_exists = TRUE /\ header = Columns /\ ts_valid = TRUE

\* A call plot_equity_dd(time, equity, ..., y_lim, log).
InitDD ==
  /\ entry = "plot_equity_dd" /\ pc = "dd_compute"
  /\ equity \in EquityInputs
  /\ time_len \in (0..MaxLen) \cup {Len(equity)}
  /\ y_lim \in (-MaxYLim)..MaxYLim
  /\ log \in BOOLEAN
  /\ NoEquityInput /\ NoScriptInput /\ Fresh

\* A call plot_equity(x, y, ..., log).
InitEquity ==
  /\ entry = "plot_equity" /\ pc = "eq_figure"
  /\ x_len \in 0..(MaxLen + 2)
  /\ y_len \in 0..(MaxLen + 2)
  /\ log \in BOOLEAN
  /\ NoDDInput /\ NoScriptInput /\ Fresh

\* A run of plot_recorder.py in some environment.
InitRecorder ==
  /\ entry = "plot_recorder" /\ pc = "r_import"
  /\ py_ok \in BOOLEAN
  /\ installed \in SUBSET RequiredPkgs
  /\ argv_len \in 1..MaxArgc
  /\ file_exists \in BOOLEAN
  /\ header \in SUBSET Columns
  /\ ts_valid \in BOOLEAN
  /\ ("timestamp" \notin header => ts_valid)
  /\ log = FALSE
  /\ NoDDInput /\ NoEquityInput /\ Fresh

Init == InitDD \/ InitEquity \/ InitRecorder

\* An exception leaves a function: nothing after the raising statement runs.
Raise(e) == error' = e /\ pc' = "done"

\* -------------------------------------------------------- plot_equity_dd
\* lines 6-8
DD_Compute ==
  /\ pc = "dd_compute"
  /\ peak' = MaximumAccumulate(equity)
  /\ drawdown' = Subtract(equity, peak')
  /\ drawdown_pct' = DrawdownPct(drawdown', peak')
  /\ pc' = "dd_subplots"
  /\ UNCHANGED <<inVars, osVars, error, pltVars>>

\* line 10
DD_Subplots ==
  /\ pc = "dd_subplots"
  /\ fig' = TRUE
  /\ pc' = "dd_fill_equity"
  /\ UNCHANGED <<inVars, ddVars, osVars, error,
                 drawn, fill_where, yscale, ylim_bottom, shown>>

\* line 12
DD_FillEquity ==
  /\ pc = "dd_fill_equity"
  /\ IF Broadcastable(time_len, Len(equity))
       THEN drawn' = drawn \cup {"equity_fill"} /\ pc' = "dd_plot_equity"
            /\ UNCHANGED error
       ELSE Raise("ValueError") /\ UNCHANGED drawn
  /\ UNCHANGED <<inVars, ddVars, osVars,
                 fig, fill_where, yscale, ylim_bottom, shown>>

\* line 14
DD_PlotEquity ==
  /\ pc = "dd_plot_equity"
  /\ IF SameFirstDimension(time_len, Len(equity))
       THEN drawn' = drawn \cup {"equity_line"} /\ pc' = "dd_fill_drawdown"
            /\ UNCHANGED error
       ELSE Raise("ValueError") /\ UNCHANGED drawn
  /\ UNCHANGED <<inVars, ddVars, osVars,
                 fig, fill_where, yscale, ylim_bottom, shown>>

\* lines 16-18
DD_FillDrawdown ==
  /\ pc = "dd_fill_drawdown"
  /\ drawn' = drawn \cup {"drawdown_fill"}
  /\ fill_where' = WhereMask(drawdown_pct)
  /\ pc' = "dd_decorate"
  /\ UNCHANGED <<inVars, ddVars, osVars, error,
                 fig, yscale, ylim_bottom, shown>>

\* lines 20-27
DD_Decorate ==
  /\ pc = "dd_decorate"
  /\ drawn' = drawn \cup {"labels", "title", "grid"}
  /\ pc' = "dd_options"
  /\ UNCHANGED <<inVars, ddVars, osVars, error,
                 fig, fill_where, yscale, ylim_bottom, shown>>

\* lines 29-32
DD_Options ==
  /\ pc = "dd_options"
  /\ yscale' = IF log THEN "log" ELSE yscale
  /\ ylim_bottom' = IF Truthy(y_lim) THEN <<y_lim>> ELSE ylim_bottom
  /\ pc' = "dd_show"
  /\ UNCHANGED <<inVars, ddVars, osVars, error,
                 fig, drawn, fill_where, shown>>

\* lines 34-35
DD_Show ==
  /\ pc = "dd_show"
  /\ shown' = TRUE
  /\ pc' = "done"
  /\ UNCHANGED <<inVars, ddVars, osVars, error,
                 fig, drawn, fill_where, yscale, ylim_bottom>>

\* ----------------------------------------------------------- plot_equity
\* line 39
EQ_Figure ==
  /\ pc = "eq_figure"
  /\ fig' = TRUE
  /\ pc' = "eq_plot"
  /\ UNCHANGED <<inVars, ddVars, osVars, error,
                 drawn, fill_where, yscale, ylim_bottom, shown>>

\* line 40
EQ_Plot ==
  /\ pc = "eq_plot"
  /\ IF SameFirstDimension(x_len, y_len)
       THEN drawn' = drawn \cup {"equity_line"} /\ pc' = "eq_labels"
            /\ UNCHANGED error
       ELSE Raise("ValueError") /\ UNCHANGED drawn
  /\ UNCHANGED <<inVars, ddVars, osVars,
                 fig, fill_where, yscale, ylim_bottom, shown>>

\* lines 41-43
EQ_Labels ==
  /\ pc = "eq_labels"
  /\ drawn' = drawn \cup {"labels", "title"}
  /\ pc' = "eq_scale"
  /\ UNCHANGED <<inVars, ddVars, osVars, error,
                 fig, fill_where, yscale, ylim_bottom, shown>>

\* lines 45-46
EQ_Scale ==
  /\ pc = "eq_scale"
  /\ yscale' = IF log THEN "log" ELSE yscale
  /\ pc' = "eq_grid"
  /\ UNCHANGED <<inVars, ddVars, osVars, error,
                 fig, drawn, fill_where, ylim_bottom, shown>>

\* lines 48-52
EQ_Grid ==
  /\ pc = "eq_grid"
  /\ drawn' = drawn \cup {"grid", "minor_grid", "minor_ticks"}
  /\ pc' = "eq_show"
  /\ UNCHANGED <<inVars, ddVars, osVars, error,
                 fig, fill_where, yscale, ylim_bottom, shown>>

\* lines 54-56
EQ_Show ==
  /\ pc = "eq_show"
  /\ drawn' = drawn \cup {"legend"}
  /\ shown' = TRUE
  /\ pc' = "done"
  /\ UNCHANGED <<inVars, ddVars, osVars, error,
                 fig, fill_where, yscale, ylim_bottom>>

\* ------------------------------------------------------- plot_recorder.py
\* An exception nothing catches ends the script: traceback, exit status 1.
Die(e) == Raise(e) /\ exit' = <<1>>

\* sys.exit(status) after the prints made so far.
SysExit(status) == exit' = <<status>> /\ pc' = "done" /\ UNCHANGED error

\* `import m`: whether module m can be imported.
Importable(m) == m \in installed

\* len(sys.argv) < 3.  The mutant is off by one.
ArgsMissing_OffByOne(n) == n < 2
ArgsMissing(n) == n < 3

\* df[c]: whether the frame has column c.  The mutant never misses one.
HasColumn_Always(c) == TRUE
HasColumn(c) == c \in header

\* lines 1-3: the imports at the top of the script
R_Import ==
  /\ pc = "r_import"
  /\ IF Importable("pandas") /\ Importable("matplotlib")
       THEN pc' = "r_version" /\ UNCHANGED <<error, exit>>
       ELSE Die("ModuleNotFoundError")
  /\ UNCHANGED <<inVars, ddVars, args_read, file_read, stdout, pltVars>>

\* lines 6-8
R_Version ==
  /\ pc = "r_version"
  /\ IF py_ok
       THEN pc' = "r_packages" /\ UNCHANGED <<error, exit, stdout>>
       ELSE stdout' = Append(stdout, "python_required") /\ SysExit(1)
  /\ UNCHANGED <<inVars, ddVars, args_read, file_read, pltVars>>

\* lines 11-22
R_Packages ==
  /\ pc = "r_packages"
  /\ LET missing == SelectSeq(required, LAMBDA pkg : ~Importable(pkg))
     IN IF missing # <<>>
          THEN /\ stdout' = stdout \o <<"missing_packages", "install_hint">>
               /\ SysExit(1)
          ELSE pc' = "r_args" /\ UNCHANGED <<error, exit, stdout>>
  /\ UNCHANGED <<inVars, ddVars, args_read, file_read, pltVars>>

\* lines 24-29
R_Args ==
  /\ pc = "r_args"
  /\ IF ArgsMissing(argv_len)
       THEN /\ stdout' = Append(stdout, "usage") /\ SysExit(1)
            /\ UNCHANGED args_read
       ELSE /\ args_read' = TRUE /\ pc' = "r_read_csv"
            /\ UNCHANGED <<error, exit, stdout>>
  /\ UNCHANGED <<inVars, ddVars, file_read, pltVars>>

\* line 32
R_ReadCsv ==
  /\ pc = "r_read_csv"
  /\ IF file_exists
       THEN file_read' = TRUE /\ pc' = "r_timestamp"
            /\ UNCHANGED <<error, exit>>
       ELSE Die("FileNotFoundError") /\ UNCHANGED file_read
  /\ UNCHANGED <<inVars, ddVars, args_read, stdout, pltVars>>

\* line 35
R_Timestamp ==
  /\ pc = "r_timestamp"
  /\ IF ~HasColumn("timestamp") THEN Die("KeyError")
     ELSE IF ~ts_valid THEN Die("ValueError")
     ELSE pc' = "r_subplots" /\ UNCHANGED <<error, exit>>
  /\ UNCHANGED <<inVars, ddVars, args_read, file_read, stdout, pltVars>>

\* line 37
R_Subplots ==
  /\ pc = "r_subplots"
  /\ fig' = TRUE
  /\ pc' = "r_equity"
  /\ UNCHANGED <<inVars, ddVars, osVars, error,
                 drawn, fill_where, yscale, ylim_bottom, shown>>

\* One panel line: ax.plot(df['timestamp'], df[column]) and its decoration.
PlotColumn(column, artist, nextpc) ==
  /\ IF HasColumn(column)
       THEN drawn' = drawn \cup {artist} /\ pc' = nextpc
            /\ UNCHANGED <<error, exit>>
       ELSE Die("KeyError") /\ UNCHANGED drawn
  /\ UNCHANGED <<inVars, ddVars, args_read, file_read, stdout,
                 fig, fill_where, yscale, ylim_bottom, shown>>

\* lines 43-47
R_Equity == pc = "r_equity" /\ PlotColumn("equity", "equity_line", "r_mid_top")

\* lines 50-54
R_MidTop == pc = "r_mid_top" /\ PlotColumn("mid_price", "mid_top", "r_position")

\* lines 57-61
R_Position ==
  pc = "r_position" /\ PlotColumn("position", "position_line", "r_mid_bottom")

\* lines 64-68
R_MidBottom ==
  pc = "r_mid_bottom" /\ PlotColumn("mid_price", "mid_bottom", "r_show")

\* lines 70-73
R_Show ==
  /\ pc = "r_show"
  /\ drawn' = drawn \cup {"labels", "title"}
  /\ shown' = TRUE
  /\ exit' = <<0>>
  /\ pc' = "done"
  /\ UNCHANGED <<inVars, ddVars, args_read, file_read, stdout, error,
                 fig, fill_where, yscale, ylim_bottom>>

Next ==
  \/ DD_Compute \/ DD_Subplots \/ DD_FillEquity \/ DD_PlotEquity
  \/ DD_FillDrawdown \/ DD_Decorate \/ DD_Options \/ DD_Show
  \/ EQ_Figure \/ EQ_Plot \/ EQ_Labels \/ EQ_Scale \/ EQ_Grid \/ EQ_Show
  \/ R_Import \/ R_Version \/ R_Packages \/ R_Args \/ R_ReadCsv
  \/ R_Timestamp \/ R_Subplots \/ R_Equity \/ R_MidTop \/ R_Position
  \/ R_MidBottom \/ R_Show

Spec == Init /\ [][Next]_vars

\* =================================================================== claims
Computed == entry = "plot_equity_dd" /\ pc # "dd_compute"
Idx == 1..Len(equity)

\* The reference running peak: the largest of E[0..i].
RefPeak(E, i) == CHOOSE m \in {E[j] : j \in 1..i} : \A j \in 1..i : E[j] <= m

\* v is the exact quotient num / den * 100.
IsPercentOf(v, num, den) == IsFinite(v) /\ v.n * den = v.d * num * 100

\* A float <= 0, == 0 (False for nan in both).
LeqZero(v) == v.k = "neginf" \/ (v.k = "fin" /\ v.n <= 0)
IsZero(v) == v.k = "fin" /\ v.n = 0

\* A finite value rounded to two decimal places, in hundredths.
Hundredths(v) == (2 * v.n * 100 + v.d) \div (2 * v.d)

\* C1: for any equity sequence, zero and negative values included, every
\* drawdown percent is <= 0, and it is 0 exactly where the equity equals
\* its running peak.
C1_DrawdownPctNonPositive ==
  Computed =>
    \A i \in Idx :
      /\ LeqZero(drawdown_pct[i])
      /\ IsZero(drawdown_pct[i]) <=> (equity[i] = peak[i])

\* C2: the running peak starts at E[0], never decreases and is never below
\* the equity, so the absolute drawdown E[i] - P[i] is never positive.
C2_RunningPeak ==
  Computed =>
    /\ Len(peak) = Len(equity) /\ Len(drawdown) = Len(equity)
    /\ (Len(equity) >= 1 => peak[1] = equity[1])
    /\ \A i \in 1..(Len(equity) - 1) : peak[i] <= peak[i + 1]
    /\ \A i \in Idx :
         /\ peak[i] >= equity[i]
         /\ drawdown[i] = equity[i] - peak[i]
         /\ drawdown[i] <= 0

C2_Witness ==
  /\ Computed
  /\ \E i \in Idx : drawdown[i] < 0
  /\ \E i \in 1..(Len(equity) - 1) : peak[i] < peak[i + 1]

\* C3: on positive equity the computed peak, drawdown and drawdown percent
\* are those of the reference definition, and the two worked scenarios give
\* the stated values (percent to two decimal places).
C3_AgreesWithReference ==
  (Computed /\ \A i \in Idx : equity[i] > 0) =>
    /\ \A i \in Idx :
         /\ peak[i] = RefPeak(equity, i)
         /\ drawdown[i] = equity[i] - RefPeak(equity, i)
         /\ IsPercentOf(drawdown_pct[i],
                        equity[i] - RefPeak(equity, i), RefPeak(equity, i))
    /\ equity = Scenario1 =>
         /\ peak = <<100, 110, 110, 110, 120>>
         /\ drawdown = <<0, 0, -20, -15, 0>>
         /\ [i \in Idx |-> Hundredths(drawdown_pct[i])]
              = <<0, 0, -1818, -1364, 0>>
    /\ equity = Scenario2 =>
         /\ peak = <<50>>
         /\ drawdown = <<0>>
         /\ drawdown_pct = <<Fin(0, 1)>>

C3_Witness ==
  /\ Computed /\ pc = "done" /\ shown
  /\ equity = Scenario1
  /\ Hundredths(drawdown_pct[3]) = -1818

\* C4: with pandas or matplotlib unavailable the script prints the
\* remediation message with the install hint and exits non-zero, before it
\* looks at its arguments or reads a file.
C4_RemediationMessage ==
  (entry = "plot_recorder" /\ installed # RequiredPkgs /\ pc = "done") =>
    /\ \E i \in 1..Len(stdout) : stdout[i] = "missing_packages"
    /\ \E i \in 1..Len(stdout) : stdout[i] = "install_hint"
    /\ exit # <<>> /\ exit # <<0>>
    /\ ~args_read /\ ~file_read

\* C5: with fewer than two arguments the script (its start-up checks
\* passed) prints the usage text and exits non-zero, and it never reads the
\* file, creates a figure or shows one.
C5_UsageOnMissingArgs ==
  (entry = "plot_recorder" /\ argv_len < 3) =>
    /\ ~args_read /\ ~file_read /\ ~fig /\ ~shown
    /\ (pc = "done" /\ py_ok /\ installed = RequiredPkgs) =>
         /\ stdout = <<"usage">>
         /\ exit = <<1>>
         /\ error = "none"

C5_Witness ==
  /\ entry = "plot_recorder" /\ pc = "done"
  /\ argv_len = 2
  /\ stdout = <<"usage">> /\ exit = <<1>>

\* C6: on a file whose header lacks a required column the display step is
\* never reached, and a run that loaded the file (timestamps well formed)
\* ends with the missing-column error and a non-zero status.
C6_MissingColumnFatal ==
  (entry = "plot_recorder" /\ header # Columns) =>
    /\ ~shown
    /\ (pc = "done" /\ file_read /\ ts_valid) =>
         /\ error = "KeyError"
         /\ exit = <<1>>

C6_Witness ==
  /\ entry = "plot_recorder" /\ pc = "done"
  /\ header = Columns \ {"position"}
  /\ error = "KeyError" /\ fig /\ ~shown

\* C7 as claimed: when plot_equity fails on x and y of different lengths,
\* no figure has been created and no display call has been made.
C7_NoFigureAtMismatch ==
  (entry = "plot_equity" /\ x_len # y_len /\ pc = "done") =>
    /\ error = "ValueError"
    /\ ~fig /\ ~shown

\* C7 as amended: plot_equity on x and y of different lengths fails with
\* the length-mismatch error raised by the plot call, after the figure was
\* created but before anything is drawn on it or displayed.
C7_MismatchBeforeDrawing ==
  (entry = "plot_equity" /\ x_len # y_len) =>
    /\ drawn = {} /\ ~shown
    /\ pc = "done" => (error = "ValueError" /\ fig)

C7_Witness ==
  /\ entry = "plot_equity" /\ pc = "done"
  /\ x_len = 5 /\ y_len = 4
  /\ error = "ValueError" /\ fig

\* C8: plot_equity_dd switches the primary axis to log scale iff log is
\* true and sets its lower limit iff y_lim is non-zero, to exactly y_lim;
\* with the defaults it changes neither.
C8_OptionsOnlyWhenRequested ==
  entry = "plot_equity_dd" =>
    /\ yscale = "log" => log
    /\ ylim_bottom # <<>> => (y_lim # 0 /\ ylim_bottom = <<y_lim>>)
    /\ (pc \in {"dd_show", "done"} /\ error = "none") =>
         /\ yscale = "log" <=> log
         /\ ylim_bottom # <<>> <=> y_lim # 0
    /\ (y_lim = 0 /\ ~log) => (yscale = "linear" /\ ylim_bottom = <<>>)

C8_Witness ==
  /\ entry = "plot_equity_dd" /\ pc = "done" /\ shown
  /\ log /\ yscale = "log"
  /\ y_lim < 0 /\ ylim_bottom = <<y_lim>>

\* C9: the drawdown fill is on at index i iff D%[i] < 0, and it is off
\* wherever the equity equals its running peak and wherever D%[i] is not a
\* finite negative number.
C9_FillOnlyFiniteNegative ==
  (entry = "plot_equity_dd" /\ "drawdown_fill" \in drawn) =>
    \A i \in Idx :
      /\ fill_where[i] <=> LeqZero(drawdown_pct[i]) /\ ~IsZero(drawdown_pct[i])
      /\ equity[i] = peak[i] => ~fill_where[i]
      /\ ~(IsFinite(drawdown_pct[i]) /\ drawdown_pct[i].n < 0) => ~fill_where[i]

\* C10: the divisor is not guarded: where the running peak is zero the
\* drawdown percent is not a finite number, and where the peak is positive
\* it is still exactly (E[j] - P[j]) / P[j] * 100.
C10_UnguardedDivisor ==
  Computed =>
    \A i \in Idx :
      /\ peak[i] = 0 => ~IsFinite(drawdown_pct[i])
      /\ peak[i] > 0 =>
           IsPercentOf(drawdown_pct[i], equity[i] - peak[i], peak[i])

C10_Witness ==
  /\ Computed
  /\ \E i \in Idx : peak[i] = 0 /\ drawdown_pct[i] = NaN
  /\ \E i \in Idx : peak[i] > 0 /\ IsFinite(drawdown_pct[i])

====
